---- MODULE Spec2Model ----
(***************************************************************************)
(* Smart-fallback RAG node (src/src/node/reactnode.py, class RAGNodes):    *)
(* documents first, Wikipedia as fallback.  Python strings are modelled as *)
(* sequences of one-character strings, so that lower(), the substring test *)
(* `in`, re.findall and ' '.join are computed character by character.      *)
(***************************************************************************)
EXTENDS Integers, Sequences, FiniteSets, TLC

\* ------------------------------------------------------------------ strings

\* The upper-case letters and, position by position, what str.lower() makes
\* of them.
UpperLetters ==
    <<"A","B","C","D","E","F","G","H","I","J","K","L","M","N","O","P","Q","R","S","T","U","V",
      "W","X","Y","Z">>

LowerLetters ==
    <<"a","b","c","d","e","f","g","h","i","j","k","l","m","n","o","p","q","r","s","t","u","v",
      "w","x","y","z">>

Digits == {"0","1","2","3","4","5","6","7","8","9"}

Range(s) == {s[i] : i \in 1..Len(s)}

\* str.lower() on one character.
lower_char(c) ==
    IF \E i \in 1..Len(UpperLetters) : UpperLetters[i] = c
    THEN LowerLetters[CHOOSE i \in 1..Len(UpperLetters) : UpperLetters[i] = c]
    ELSE c

\* str.lower(): every character lower-cased, length and order kept.
lower(s) == [i \in 1..Len(s) |-> lower_char(s[i])]

\* The regular expression class \w: letters, digits and the underscore.
IsWordChar(c) == c \in Range(UpperLetters) \cup Range(LowerLetters) \cup Digits \cup {"_"}

\* `sub in s` for Python strings: sub occurs as a contiguous slice of s.
Contains(s, sub) ==
    \E i \in 0..(Len(s) - Len(sub)) :
        \A j \in 1..Len(sub) : s[i + j] = sub[j]

\* s.startswith(prefix)
StartsWith(s, prefix) ==
    /\ Len(prefix) <= Len(s)
    /\ \A j \in 1..Len(prefix) : s[j] = prefix[j]

\* re.findall(r'\b\w+\b', s): the maximal runs of word characters of s, in
\* order.  i is the next position to read, cur the run being read, acc the
\* runs found so far.
RECURSIVE FindAllFrom(_, _, _, _)
FindAllFrom(s, i, cur, acc) ==
    IF i > Len(s)
    THEN IF cur = <<>> THEN acc ELSE Append(acc, cur)
    ELSE IF IsWordChar(s[i])
         THEN FindAllFrom(s, i + 1, Append(cur, s[i]), acc)
         ELSE FindAllFrom(s, i + 1, <<>>, IF cur = <<>> THEN acc ELSE Append(acc, cur))

findall_words(s) == FindAllFrom(s, 1, <<>>, <<>>)

\* ' '.join(words)
RECURSIVE join_space(_)
join_space(words) ==
    IF words = <<>> THEN <<>>
    ELSE IF Len(words) = 1 THEN words[1]
    ELSE words[1] \o <<" ">> \o join_space(Tail(words))

\* ------------------------------------------------- completeness classifier

\* incomplete_indicators, reactnode.py lines 39-55, in the list's order.
incomplete_indicators == <<
    \* 'no information'
    <<"n","o"," ","i","n","f","o","r","m","a","t","i","o","n">>,
    \* 'not found'
    <<"n","o","t"," ","f","o","u","n","d">>,
    \* 'cannot find'
    <<"c","a","n","n","o","t"," ","f","i","n","d">>,
    \* 'not mentioned'
    <<"n","o","t"," ","m","e","n","t","i","o","n","e","d">>,
    \* 'not provided'
    <<"n","o","t"," ","p","r","o","v","i","d","e","d">>,
    \* 'not available'
    <<"n","o","t"," ","a","v","a","i","l","a","b","l","e">>,
    \* 'insufficient information'
    <<"i","n","s","u","f","f","i","c","i","e","n","t"," ","i","n","f","o","r","m","a","t","i",
      "o","n">>,
    \* "don't have enough"
    <<"d","o","n","'","t"," ","h","a","v","e"," ","e","n","o","u","g","h">>,
    \* "context doesn't contain"
    <<"c","o","n","t","e","x","t"," ","d","o","e","s","n","'","t"," ","c","o","n","t","a","i",
      "n">>,
    \* 'not in the documents'
    <<"n","o","t"," ","i","n"," ","t","h","e"," ","d","o","c","u","m","e","n","t","s">>,
    \* 'need more context'
    <<"n","e","e","d"," ","m","o","r","e"," ","c","o","n","t","e","x","t">>,
    \* 'please provide'
    <<"p","l","e","a","s","e"," ","p","r","o","v","i","d","e">>,
    \* 'i need more'
    <<"i"," ","n","e","e","d"," ","m","o","r","e">>,
    \* 'cannot answer'
    <<"c","a","n","n","o","t"," ","a","n","s","w","e","r">>,
    \* 'unable to answer'
    <<"u","n","a","b","l","e"," ","t","o"," ","a","n","s","w","e","r">>
>>

\* is_incomplete_answer without the lower() of line 57.
is_incomplete_answer_case_sensitive(answer) ==
    \E k \in 1..Len(incomplete_indicators) : Contains(answer, incomplete_indicators[k])

\* is_incomplete_answer: any(indicator in answer.lower() for indicator in ...)
is_incomplete_answer(answer) ==
    LET answer_lower == lower(answer)
    IN  \E k \in 1..Len(incomplete_indicators) :
            Contains(answer_lower, incomplete_indicators[k])

\* ----------------------------------------------------------- term extractor

\* stop_words, reactnode.py line 142.
stop_words == {
    <<"w","h","a","t">>,
    <<"h","o","w">>,
    <<"w","h","y">>,
    <<"w","h","e","n">>,
    <<"w","h","e","r","e">>,
    <<"w","h","o">>,
    <<"w","h","i","c","h">>,
    <<"i","s">>,
    <<"a","r","e">>,
    <<"d","o">>,
    <<"d","o","e","s">>,
    <<"c","a","n">>,
    <<"w","i","l","l">>,
    <<"w","o","u","l","d">>,
    <<"s","h","o","u","l","d">>
}

\* len(word) > 2, line 146.
MinWordLen == 2

\* key_words[:5], line 149.
MaxKeyTerms == 5

\* The filter of line 146 without its stop-word test.
key_words_of_length_only(words) ==
    SelectSeq(words, LAMBDA word : Len(word) > MinWordLen)

\* key_words = [word for word in words if word not in stop_words and len(word) > 2]
key_words_of(words) ==
    SelectSeq(words, LAMBDA word : word \notin stop_words /\ Len(word) > MinWordLen)

\* A slice that keeps every element.
Take_unlimited(seq, n) == seq

\* seq[:n]
Take(seq, n) == SubSeq(seq, 1, IF Len(seq) < n THEN Len(seq) ELSE n)

\* extract_key_terms without the fallback to the question of line 149.
extract_key_terms_join_only(question) ==
    join_space(Take(key_words_of(findall_words(lower(question))), MaxKeyTerms))

\* extract_key_terms(question), lines 137-149.
extract_key_terms(question) ==
    LET words == findall_words(lower(question))
        key_words == key_words_of(words)
    IN  IF key_words # <<>> THEN join_space(Take(key_words, MaxKeyTerms)) ELSE question

\* ------------------------------------------------------------ fixed strings

\* answer_with_documents, line 65.
\* "No relevant documents found in uploaded content."
NoDocumentsSentinel ==
    <<"N","o"," ","r","e","l","e","v","a","n","t"," ","d","o","c","u","m","e","n","t","s"," ",
      "f","o","u","n","d"," ","i","n"," ","u","p","l","o","a","d","e","d"," ","c","o","n","t",
      "e","n","t",".">>

\* answer_with_documents, line 96: f"Error processing documents: {str(e)}"
\* "Error processing documents: "
ErrorProcessingPrefix ==
    <<"E","r","r","o","r"," ","p","r","o","c","e","s","s","i","n","g"," ","d","o","c","u","m",
      "e","n","t","s",":"," ">>

\* answer_with_wikipedia, line 135: the note that follows doc_answer.
\* "\n\nNote: Could not retrieve additional information from Wikipedia due to error: "
WikipediaNotePrefix ==
    <<"\n","\n","N","o","t","e",":"," ","C","o","u","l","d"," ","n","o","t"," ","r","e","t","r",
      "i","e","v","e"," ","a","d","d","i","t","i","o","n","a","l"," ","i","n","f","o","r","m",
      "a","t","i","o","n"," ","f","r","o","m"," ","W","i","k","i","p","e","d","i","a"," ","d",
      "u","e"," ","t","o"," ","e","r","r","o","r",":"," ">>

\* f"Document {i}", line 71.
\* "Document "
DocumentLabelPrefix ==
    <<"D","o","c","u","m","e","n","t"," ">>

\* str(i) for the one-digit document numbers the model reaches.
DigitChars == <<"0","1","2","3","4","5","6","7","8","9">>
str_int(i) == <<DigitChars[i + 1]>>

\* An optional value: <<>> is None, <<v>> is the value v.
None == <<>>
Some(v) == <<v>>

\* ------------------------------------------------------------------- inputs

\* The largest number of chunks the retriever stub returns.
MaxDocs == 2

\* The longest question of the term extractor's exhaustive input set.
MaxQuestionLen == 3

\* How many times generate_answer is called on the same turn.
MaxRuns == 2

\* "What does the document say about quantum computing?"
QuantumQuestion ==
    <<"W","h","a","t"," ","d","o","e","s"," ","t","h","e"," ","d","o","c","u","m","e","n","t",
      " ","s","a","y"," ","a","b","o","u","t"," ","q","u","a","n","t","u","m"," ","c","o","m",
      "p","u","t","i","n","g","?">>

\* "What is the capital of France and why is it important?"
FranceQuestion ==
    <<"W","h","a","t"," ","i","s"," ","t","h","e"," ","c","a","p","i","t","a","l"," ","o","f",
      " ","F","r","a","n","c","e"," ","a","n","d"," ","w","h","y"," ","i","s"," ","i","t"," ",
      "i","m","p","o","r","t","a","n","t","?">>

\* A question none of whose tokens survives the filter.
\* "Who is it?"
WhoQuestion ==
    <<"W","h","o"," ","i","s"," ","i","t","?">>

EmptyQuestion == <<>>

NamedQuestions == {QuantumQuestion, FranceQuestion, WhoQuestion, EmptyQuestion}

\* Characters of the exhaustive question set: letters in both cases (stop
\* word "who", survivor "hoo"), a separator and punctuation.
QuestionAlphabet == {"W", "h", "o", "a", " ", "?"}

BoundedQuestions ==
    UNION {[1..n -> QuestionAlphabet] : n \in 0..MaxQuestionLen}

\* The most words of a question put together from QuestionWords.
MaxWords == 6

\* Words for longer questions: two that survive the filter (one of them
\* capitalised), a stop word and a short word.
QuestionWords == {<<"C", "a", "t">>, <<"d", "o", "g">>, <<"w", "h", "o">>, <<"i", "t">>}

\* The words of ws separated by ", " and closed by a question mark.
RECURSIVE comma_separated(_)
comma_separated(ws) ==
    IF Len(ws) = 1 THEN ws[1] \o <<"?">>
    ELSE ws[1] \o <<",", " ">> \o comma_separated(Tail(ws))

WordQuestions ==
    {comma_separated(ws) : ws \in UNION {[1..n -> QuestionWords] : n \in 1..MaxWords}}

\* Retrieved chunks: page_content plus the metadata keys the node reads.
\* "notes.pdf"
SourceName ==
    <<"n","o","t","e","s",".","p","d","f">>

\* "Intro"
TitleName ==
    <<"I","n","t","r","o">>

\* "Paris."
PageText ==
    <<"P","a","r","i","s",".">>

DocWithSource == [page_content |-> PageText, source |-> Some(SourceName), title |-> Some(TitleName)]
DocWithTitle == [page_content |-> PageText, source |-> None, title |-> Some(TitleName)]
DocPlain == [page_content |-> PageText, source |-> None, title |-> None]

Documents == {DocWithSource, DocWithTitle, DocPlain}

DocLists == UNION {[1..n -> Documents] : n \in 0..MaxDocs}

\* Texts the generation stub returns for the document prompt.
\* "Paris is the capital of France."
SubstantiveAnswer ==
    <<"P","a","r","i","s"," ","i","s"," ","t","h","e"," ","c","a","p","i","t","a","l"," ","o",
      "f"," ","F","r","a","n","c","e",".">>

\* "The context does not contain information about quantum computing"
QuantumStubAnswer ==
    <<"T","h","e"," ","c","o","n","t","e","x","t"," ","d","o","e","s"," ","n","o","t"," ","c",
      "o","n","t","a","i","n"," ","i","n","f","o","r","m","a","t","i","o","n"," ","a","b","o",
      "u","t"," ","q","u","a","n","t","u","m"," ","c","o","m","p","u","t","i","n","g">>

\* "I CANNOT FIND that, Not Mentioned."
CannotFindAnswer ==
    <<"I"," ","C","A","N","N","O","T"," ","F","I","N","D"," ","t","h","a","t",","," ","N","o",
      "t"," ","M","e","n","t","i","o","n","e","d",".">>

\* The sentence the document prompt instructs the model to use, line 87.
\* "The uploaded documents don't contain sufficient information about quantum computing."
InstructedSentence ==
    <<"T","h","e"," ","u","p","l","o","a","d","e","d"," ","d","o","c","u","m","e","n","t","s",
      " ","d","o","n","'","t"," ","c","o","n","t","a","i","n"," ","s","u","f","f","i","c","i",
      "e","n","t"," ","i","n","f","o","r","m","a","t","i","o","n"," ","a","b","o","u","t"," ",
      "q","u","a","n","t","u","m"," ","c","o","m","p","u","t","i","n","g",".">>

EmptyAnswer == <<>>

DocumentTexts == {SubstantiveAnswer, QuantumStubAnswer, CannotFindAnswer, InstructedSentence, EmptyAnswer}

\* Failure details, str(e), of a generation call.
\* "timeout"
TimeoutDetail ==
    <<"t","i","m","e","o","u","t">>

\* "model not found"
ModelNotFoundDetail ==
    <<"m","o","d","e","l"," ","n","o","t"," ","f","o","u","n","d">>

\* What the knowledge lookup returns, and how it fails.
\* "Page: Quantum computing"
WikiText ==
    <<"P","a","g","e",":"," ","Q","u","a","n","t","u","m"," ","c","o","m","p","u","t","i","n",
      "g">>

\* "connection refused"
WikiDownDetail ==
    <<"c","o","n","n","e","c","t","i","o","n"," ","r","e","f","u","s","e","d">>

\* What the generation stub returns for the combined prompt.
\* "Based on your uploaded documents: nothing. Additionally, from general knowledge: qubits."
CombinedText ==
    <<"B","a","s","e","d"," ","o","n"," ","y","o","u","r"," ","u","p","l","o","a","d","e","d",
      " ","d","o","c","u","m","e","n","t","s",":"," ","n","o","t","h","i","n","g","."," ","A",
      "d","d","i","t","i","o","n","a","l","l","y",","," ","f","r","o","m"," ","g","e","n","e",
      "r","a","l"," ","k","n","o","w","l","e","d","g","e",":"," ","q","u","b","i","t","s",".">>

\* The longest padding put before and after a phrase in the classifier's
\* input set.
MaxPad == 1

\* Padding characters: a separator, and a letter that completes a phrase cut
\* at its first character ("I" before " need more").
PadAlphabet == {" ", "I"}

Paddings == UNION {[1..n -> PadAlphabet] : n \in 0..MaxPad}

\* str.upper() on one character, and on a string.
upper_char(c) ==
    IF \E i \in 1..Len(LowerLetters) : LowerLetters[i] = c
    THEN UpperLetters[CHOOSE i \in 1..Len(LowerLetters) : LowerLetters[i] = c]
    ELSE c

upper(s) == [i \in 1..Len(s) |-> upper_char(s[i])]

\* Cores of the classifier's inputs: every indicator as listed, in capitals,
\* and cut by one character at either end; the document answers of the
\* pipeline; the sentinel.
AnswerCores ==
    UNION {{incomplete_indicators[k], upper(incomplete_indicators[k]),
            SubSeq(incomplete_indicators[k], 1, Len(incomplete_indicators[k]) - 1),
            Tail(incomplete_indicators[k])} : k \in 1..Len(incomplete_indicators)}
    \cup DocumentTexts \cup {NoDocumentsSentinel}

ClassifierAnswers ==
    {pre \o core \o post : pre \in Paddings, core \in AnswerCores, post \in Paddings}

\* The outcome of an external call: it returns value, or raises an exception
\* whose str() is value.
Returns(v) == [ok |-> TRUE, value |-> v]
Raises(detail) == [ok |-> FALSE, value |-> detail]

DocumentOutcomes ==
    {Returns(s) : s \in DocumentTexts} \cup {Raises(TimeoutDetail), Raises(ModelNotFoundDetail)}

CombinedOutcomes == {Returns(CombinedText), Raises(TimeoutDetail)}

LookupOutcomes == {Returns(WikiText), Raises(WikiDownDetail)}

\* ------------------------------------------------------------------- state

VARIABLES
    retriever,      \* self.retriever: the chunks its invoke() returns
    llm,            \* self.llm: its outcome for each of the two prompts
    wiki_tool,      \* self.wiki_tool: the outcome of its run()
    state,          \* the RAGState handed to the node being run
    pc,             \* the position in the pipeline
    doc_answer,     \* generate_answer's local doc_answer
    final_answer,   \* generate_answer's local final_answer
    wiki_query,     \* the last value extract_key_terms returned
    result,         \* the RAGState generate_answer returned, None before
    events,         \* the calls made and values returned so far, in order
    raised,         \* the exception that left the node, None if none did
    run,            \* which call of generate_answer on this turn is running
    previous        \* what the call before this one returned and called, None in the first

vars == <<retriever, llm, wiki_tool, state, pc, doc_answer, final_answer,
          wiki_query, result, events, raised, run, previous>>

\* RAGState(question=..., retrieved_docs=..., answer=...)
RAGState(question, retrieved_docs, answer) ==
    [question |-> question, retrieved_docs |-> retrieved_docs, answer |-> answer]

\* What a method hands back to its caller: the value it returns (exc = None)
\* or the exception that leaves it, and the external calls it made.
Returned(v, calls) == [ret |-> v, exc |-> None, calls |-> calls]
Propagated(detail, calls) == [ret |-> <<>>, exc |-> Some(detail), calls |-> calls]

LlmCall(prompt) == [op |-> "llm.invoke", arg |-> prompt]
WikiCall(query) == [op |-> "wiki_tool.run", arg |-> query]

\* ---------------------------------------------------------- document answer

\* meta.get("source", meta.get("title", f"Document {i}")), line 71.
provenance(doc, i) ==
    IF doc.source # None THEN doc.source[1]
    ELSE IF doc.title # None THEN doc.title[1]
    ELSE DocumentLabelPrefix \o str_int(i)

\* context_parts, lines 68-72: one labelled section per chunk, in order.
context_parts(retrieved_docs) ==
    [i \in 1..Len(retrieved_docs) |->
        [index |-> i, source |-> provenance(retrieved_docs[i], i),
         page_content |-> retrieved_docs[i].page_content]]

\* A document prompt that also carries the answer of the call before, as a
\* node that kept its last answer on self would build it.
document_prompt_with_memory(st) ==
    [kind |-> "documents", question |-> st.question,
     context |-> context_parts(st.retrieved_docs),
     doc_answer |-> IF previous = None THEN <<>> ELSE previous[1].result.answer[1],
     wiki_content |-> <<>>]

\* The document prompt, lines 77-90: its fixed text around the context and
\* the question.
document_prompt(st) ==
    [kind |-> "documents", question |-> st.question,
     context |-> context_parts(st.retrieved_docs), doc_answer |-> <<>>,
     wiki_content |-> <<>>]

\* The combined prompt, lines 112-129.
combined_prompt(st, docAnswer, wikiContent) ==
    [kind |-> "combined", question |-> st.question, context |-> <<>>,
     doc_answer |-> docAnswer, wiki_content |-> wikiContent]

\* self.llm.invoke(prompt): the stub's outcome for that prompt.
llm_invoke(stub, prompt) == stub[prompt.kind]

\* The generation call of line 93 outside any try/except.
document_generation_unguarded(response, prompt) ==
    IF response.ok
    THEN Returned(response.value, <<LlmCall(prompt)>>)
    ELSE Propagated(response.value, <<LlmCall(prompt)>>)

\* The generation call of answer_with_documents, lines 92-96: the text of the
\* response, or the failure turned into text.
document_generation(response, prompt) ==
    IF response.ok
    THEN Returned(response.value, <<LlmCall(prompt)>>)
    ELSE Returned(ErrorProcessingPrefix \o response.value, <<LlmCall(prompt)>>)

\* answer_with_documents with the empty-retrieval return of lines 64-65 left out.
answer_with_documents_always_generates(st, llmStub) ==
    LET prompt == document_prompt(st)
    IN  document_generation(llm_invoke(llmStub, prompt), prompt)

\* answer_with_documents, lines 60-96.
answer_with_documents(st, llmStub) ==
    IF st.retrieved_docs = <<>>
    THEN Returned(NoDocumentsSentinel, <<>>)
    ELSE LET prompt == document_prompt(st)
         IN  document_generation(llm_invoke(llmStub, prompt), prompt)

\* answer_with_wikipedia without the try/except of lines 107 and 134-135.
answer_with_wikipedia_unguarded(st, docAnswer, wikiStub, llmStub) ==
    LET query == extract_key_terms(st.question)
        lookup == wikiStub
    IN  IF ~lookup.ok
        THEN Propagated(lookup.value, <<WikiCall(query)>>)
        ELSE LET prompt == combined_prompt(st, docAnswer, lookup.value)
                 response == llm_invoke(llmStub, prompt)
                 calls == <<WikiCall(query), LlmCall(prompt)>>
             IN  IF response.ok
                 THEN Returned(response.value, calls)
                 ELSE Propagated(response.value, calls)

\* answer_with_wikipedia that tries the lookup a second time when it fails.
answer_with_wikipedia_retrying(st, docAnswer, wikiStub, llmStub) ==
    LET query == extract_key_terms(st.question)
        lookup == wikiStub
    IN  IF ~lookup.ok
        THEN Returned(docAnswer \o WikipediaNotePrefix \o lookup.value,
                      <<WikiCall(query), WikiCall(query)>>)
        ELSE LET prompt == combined_prompt(st, docAnswer, lookup.value)
                 response == llm_invoke(llmStub, prompt)
                 calls == <<WikiCall(query), LlmCall(prompt)>>
             IN  IF response.ok
                 THEN Returned(response.value, calls)
                 ELSE Returned(docAnswer \o WikipediaNotePrefix \o response.value, calls)

\* answer_with_wikipedia, lines 98-135.
answer_with_wikipedia(st, docAnswer, wikiStub, llmStub) ==
    LET query == extract_key_terms(st.question)
        lookup == wikiStub
    IN  IF ~lookup.ok
        THEN Returned(docAnswer \o WikipediaNotePrefix \o lookup.value, <<WikiCall(query)>>)
        ELSE LET prompt == combined_prompt(st, docAnswer, lookup.value)
                 response == llm_invoke(llmStub, prompt)
                 calls == <<WikiCall(query), LlmCall(prompt)>>
             IN  IF response.ok
                 THEN Returned(response.value, calls)
                 ELSE Returned(docAnswer \o WikipediaNotePrefix \o response.value, calls)

\* A generate_answer that consults Wikipedia whatever the verdict.
branch_of_always_fallback(docAnswer) == "Fallback"

\* The branch generate_answer takes on doc_answer, lines 162-167.
branch_of(docAnswer) ==
    IF is_incomplete_answer(docAnswer) THEN "Fallback" ELSE "Complete"

\* A Complete branch that normalises the answer it passes on.
complete_answer_lowered(docAnswer) == lower(docAnswer)

\* The else branch, line 167.
complete_answer(docAnswer) == docAnswer

\* A returned turn built without retrieved_docs=state.retrieved_docs.
final_state_without_docs(st, finalAnswer) ==
    RAGState(st.question, <<>>, Some(finalAnswer))

\* The turn generate_answer returns, lines 169-173.
final_state(st, finalAnswer) ==
    RAGState(st.question, st.retrieved_docs, Some(finalAnswer))

\* retrieve_docs, lines 25-33.
retrieve_docs(st, docs) == RAGState(st.question, docs, None)

\* ------------------------------------------------------------------ actions

TypeDefaults ==
    /\ doc_answer = <<>>
    /\ final_answer = <<>>
    /\ wiki_query = <<>>
    /\ result = None
    /\ events = <<>>
    /\ raised = None
    /\ run = 1
    /\ previous = None

\* RAGNodes(retriever, llm) with stubbed collaborators, and the turn a
\* question starts as.
Init ==
    /\ retriever \in DocLists
    /\ llm \in [documents : DocumentOutcomes, combined : CombinedOutcomes]
    /\ wiki_tool \in LookupOutcomes
    /\ state \in {RAGState(q, <<>>, None) : q \in NamedQuestions}
    /\ pc = "Retrieve"
    /\ TypeDefaults

\* The retrieval node: retrieve_docs(state).
RetrieveDocs ==
    /\ pc = "Retrieve"
    /\ state' = retrieve_docs(state, retriever)
    /\ events' = Append(events, [op |-> "retriever.invoke", arg |-> state.question])
    /\ pc' = "Start"
    /\ UNCHANGED <<run, previous, retriever, llm, wiki_tool, doc_answer, final_answer, wiki_query, result, raised>>

\* generate_answer, line 158: doc_answer = self.answer_with_documents(state)
DocAnswer ==
    /\ pc = "Start"
    /\ LET r == answer_with_documents(state, llm)
       IN  IF r.exc = None
           THEN /\ doc_answer' = r.ret
                /\ events' = events \o r.calls \o
                             <<[op |-> "answer_with_documents", arg |-> r.ret]>>
                /\ pc' = "DocAnswered"
                /\ raised' = raised
           ELSE /\ doc_answer' = doc_answer
                /\ events' = events \o r.calls
                /\ pc' = "Raised"
                /\ raised' = r.exc
    /\ UNCHANGED <<run, previous, retriever, llm, wiki_tool, state, final_answer, wiki_query, result>>

\* generate_answer, line 162: if self.is_incomplete_answer(doc_answer)
Classify ==
    /\ pc = "DocAnswered"
    /\ events' = Append(events, [op |-> "is_incomplete_answer", arg |-> doc_answer,
                                 ret |-> is_incomplete_answer(doc_answer)])
    /\ pc' = branch_of(doc_answer)
    /\ UNCHANGED <<run, previous, retriever, llm, wiki_tool, state, doc_answer, final_answer, wiki_query, result, raised>>

\* generate_answer, line 167: final_answer = doc_answer
Complete ==
    /\ pc = "Complete"
    /\ final_answer' = complete_answer(doc_answer)
    /\ pc' = "Return"
    /\ UNCHANGED <<run, previous, retriever, llm, wiki_tool, state, doc_answer, wiki_query, result, events, raised>>

\* generate_answer, line 164: final_answer = self.answer_with_wikipedia(state, doc_answer)
Fallback ==
    /\ pc = "Fallback"
    /\ wiki_query' = extract_key_terms(state.question)
    /\ LET r == answer_with_wikipedia(state, doc_answer, wiki_tool, llm)
       IN  IF r.exc = None
           THEN /\ final_answer' = r.ret
                /\ events' = events \o r.calls \o
                             <<[op |-> "answer_with_wikipedia", arg |-> r.ret]>>
                /\ pc' = "Return"
                /\ raised' = raised
           ELSE /\ final_answer' = final_answer
                /\ events' = events \o r.calls
                /\ pc' = "Raised"
                /\ raised' = r.exc
    /\ UNCHANGED <<run, previous, retriever, llm, wiki_tool, state, doc_answer, result>>

\* generate_answer, lines 169-173: return RAGState(...)
Return ==
    /\ pc = "Return"
    /\ result' = Some(final_state(state, final_answer))
    /\ pc' = "Final"
    /\ UNCHANGED <<run, previous, retriever, llm, wiki_tool, state, doc_answer, final_answer, wiki_query, events, raised>>

\* The calls of the collaborators among the events, in order.
ExternalCalls(evs) ==
    SelectSeq(evs, LAMBDA e : e.op \in {"llm.invoke", "wiki_tool.run"})

\* generate_answer called again on the turn it was given before: the same
\* RAGNodes object and the same state argument, new locals (lines 151-173
\* assign nothing to self or to state).
Rerun ==
    /\ pc = "Final"
    /\ run < MaxRuns
    /\ previous' = Some([result |-> result[1], calls |-> ExternalCalls(events)])
    /\ run' = run + 1
    /\ doc_answer' = <<>>
    /\ final_answer' = <<>>
    /\ wiki_query' = <<>>
    /\ result' = None
    /\ events' = <<>>
    /\ pc' = "Start"
    /\ UNCHANGED <<retriever, llm, wiki_tool, state, raised>>

Next == RetrieveDocs \/ DocAnswer \/ Classify \/ Complete \/ Fallback \/ Return \/ Rerun

Spec == Init /\ [][Next]_vars

\* The term extractor on its own: extract_key_terms applied to every question
\* of the exhaustive set and to the named ones.
TermsInit ==
    /\ retriever = <<>>
    /\ llm = [documents |-> Returns(SubstantiveAnswer), combined |-> Returns(CombinedText)]
    /\ wiki_tool = Returns(WikiText)
    /\ state \in {RAGState(q, <<>>, None) : q \in BoundedQuestions \cup WordQuestions \cup NamedQuestions}
    /\ pc = "Terms"
    /\ TypeDefaults

\* wiki_query = self.extract_key_terms(state.question), line 105.
ExtractTerms ==
    /\ pc = "Terms"
    /\ wiki_query' = extract_key_terms(state.question)
    /\ events' = Append(events, [op |-> "extract_key_terms", arg |-> state.question])
    /\ pc' = "TermsDone"
    /\ UNCHANGED <<run, previous, retriever, llm, wiki_tool, state, doc_answer, final_answer, result, raised>>

TermsNext == ExtractTerms

TermsSpec == TermsInit /\ [][TermsNext]_vars

\* The completeness classifier on its own: is_incomplete_answer applied to
\* every answer of ClassifierAnswers.
ClassifierInit ==
    /\ retriever = <<>>
    /\ llm = [documents |-> Returns(SubstantiveAnswer), combined |-> Returns(CombinedText)]
    /\ wiki_tool = Returns(WikiText)
    /\ state = RAGState(QuantumQuestion, <<>>, None)
    /\ pc = "Classifier"
    /\ doc_answer \in ClassifierAnswers
    /\ final_answer = <<>>
    /\ wiki_query = <<>>
    /\ result = None
    /\ events = <<>>
    /\ raised = None
    /\ run = 1
    /\ previous = None

\* self.is_incomplete_answer(doc_answer), line 162.
ClassifyAnswer ==
    /\ pc = "Classifier"
    /\ events' = Append(events, [op |-> "is_incomplete_answer", arg |-> doc_answer,
                                 ret |-> is_incomplete_answer(doc_answer)])
    /\ pc' = "ClassifierDone"
    /\ UNCHANGED <<run, previous, retriever, llm, wiki_tool, state, doc_answer, final_answer, wiki_query, result, raised>>

ClassifierNext == ClassifyAnswer

ClassifierSpec == ClassifierInit /\ [][ClassifierNext]_vars


\* ------------------------------------------------------- reading the history

EventsOf(op) == {i \in 1..Len(events) : events[i].op = op}

\* The classifier has run on the document answer, with this verdict.
Classified(verdict) ==
    \E i \in EventsOf("is_incomplete_answer") : events[i].ret = verdict

\* generate_answer is past line 158.
DocAnswerDone == pc \in {"DocAnswered", "Complete", "Fallback", "Return", "Final"}

\* answer_with_wikipedia has returned.
FallbackDone == EventsOf("answer_with_wikipedia") # {}

\* The lookup, or the generation call after it, raises.
FallbackFails == ~wiki_tool.ok \/ ~llm.combined.ok

\* str(e) of the exception answer_with_wikipedia catches.
FallbackFailureDetail == IF ~wiki_tool.ok THEN wiki_tool.value ELSE llm.combined.value

\* ------------------------------------------------------------------- claims

\* C1: when is_incomplete_answer returned false for the document answer, the
\* final turn's answer is exactly the string answer_with_documents returned,
\* and wiki_tool.run was never called during the query.
C1_CompleteIsVerbatim ==
    Classified(FALSE) =>
        /\ EventsOf("wiki_tool.run") = {}
        /\ pc = "Final" =>
              \E i \in EventsOf("answer_with_documents") :
                  result[1].answer = Some(events[i].arg)

C1_Witness ==
    /\ pc = "Final"
    /\ Classified(FALSE)
    /\ state.retrieved_docs # <<>>
    /\ result[1].answer = Some(SubstantiveAnswer)

\* C2: every call of wiki_tool.run comes after answer_with_documents has
\* returned and after is_incomplete_answer has been evaluated on that very
\* result with verdict true; no lookup is issued before or without it.
C2_LookupOnlyAfterIncompleteVerdict ==
    \A i \in EventsOf("wiki_tool.run") :
        \E j \in EventsOf("is_incomplete_answer") :
            /\ j < i
            /\ events[j].ret = TRUE
            /\ \E k \in EventsOf("answer_with_documents") :
                  k < j /\ events[k].arg = events[j].arg

C2_Witness ==
    /\ EventsOf("wiki_tool.run") # {}
    /\ Classified(TRUE)
    /\ pc = "Final"

\* C3: with no retrieved chunks, the sentinel answer_with_documents returns
\* is classified incomplete and generate_answer takes the Fallback branch
\* (answer_with_wikipedia runs), not the Complete branch.
C3_EmptyRetrievalFallsBack ==
    (state.retrieved_docs = <<>> /\ pc \in {"Complete", "Fallback", "Return", "Final"}) =>
        /\ Classified(TRUE)
        /\ pc # "Complete"
        /\ pc \in {"Return", "Final"} => FallbackDone

\* C4: with no retrieved chunks, answer_with_documents returns the fixed
\* sentinel and the Document Answerer does not call llm.invoke, whatever the
\* question.
C4_EmptyRetrievalSentinelNoGeneration ==
    (state.retrieved_docs = <<>> /\ DocAnswerDone) =>
        /\ doc_answer = NoDocumentsSentinel
        /\ \A k \in EventsOf("answer_with_documents") :
              /\ events[k].arg = NoDocumentsSentinel
              /\ \A i \in EventsOf("llm.invoke") : i > k

C4_Witness ==
    /\ state.retrieved_docs = <<>>
    /\ pc = "DocAnswered"
    /\ state.question = QuantumQuestion
    /\ ~llm.documents.ok

\* C5: when the lookup or the generation call after it fails inside
\* answer_with_wikipedia, no exception leaves it and it returns doc_answer
\* followed by the note that describes the failure; the returned string
\* starts with doc_answer unchanged.
C5_FallbackFailureKeepsDocAnswer ==
    (Classified(TRUE) /\ FallbackFails) =>
        /\ raised = None
        /\ pc # "Raised"
        /\ pc \in {"Return", "Final"} =>
              /\ FallbackDone
              /\ final_answer = doc_answer \o WikipediaNotePrefix \o FallbackFailureDetail
              /\ StartsWith(final_answer, doc_answer)

C5_Witness ==
    /\ pc = "Final"
    /\ Classified(TRUE)
    /\ wiki_tool.ok
    /\ ~llm.combined.ok
    /\ final_answer = CannotFindAnswer \o WikipediaNotePrefix \o TimeoutDetail

\* C6: whenever the fallback fails, the final answer is non-empty and is not
\* error-only: the document answer it carries is not the failure description
\* "Error processing documents: ..." of a failed first generation call.
C6_FallbackFailureNeverErrorOnly ==
    (pc = "Final" /\ Classified(TRUE) /\ FallbackFails) =>
        /\ result[1].answer # None
        /\ result[1].answer[1] # <<>>
        /\ ~StartsWith(result[1].answer[1], ErrorProcessingPrefix)

\* C7: whatever succeeds or fails among the generation and lookup calls,
\* generate_answer raises nothing, runs on to its return and returns a turn
\* whose answer is a string (control is always at a step of the pipeline that
\* has a successor, or at its end); when the generation call of
\* answer_with_documents fails, answer_with_documents returns
\* "Error processing documents: " followed by the failure detail.
C7_NoFailureEscapes ==
    /\ raised = None
    /\ pc # "Raised"
    /\ pc \in {"Retrieve", "Start", "DocAnswered", "Complete", "Fallback", "Return", "Final"}
    /\ pc = "Final" => (result # None /\ result[1].answer = Some(final_answer))
    /\ (DocAnswerDone /\ state.retrieved_docs # <<>> /\ ~llm.documents.ok) =>
           doc_answer = ErrorProcessingPrefix \o llm.documents.value

C7_Witness ==
    /\ pc = "Final"
    /\ state.retrieved_docs # <<>>
    /\ llm.documents = Raises(ModelNotFoundDetail)
    /\ ~wiki_tool.ok
    /\ FallbackDone

\* The end-to-end example: the quantum question, one retrieved chunk, and a
\* generation stub whose document answer is QuantumStubAnswer.
QuantumScenario ==
    /\ state.question = QuantumQuestion
    /\ Len(state.retrieved_docs) = 1
    /\ llm.documents = Returns(QuantumStubAnswer)

\* C8: in the end-to-end example is_incomplete_answer flags the
\* document answer as incomplete, generate_answer takes the Fallback branch,
\* and the final answer is answer_with_wikipedia's output, not the document
\* answer.
C8_QuantumExampleFallsBack ==
    (QuantumScenario /\ pc = "Final") =>
        /\ Classified(TRUE)
        /\ \E i \in EventsOf("answer_with_wikipedia") :
              result[1].answer = Some(events[i].arg)
        /\ result[1].answer # Some(QuantumStubAnswer)

\* The query the end-to-end example expects the lookup to receive.
\* "document say quantum computing"
ClaimedQuantumQuery ==
    <<"d","o","c","u","m","e","n","t"," ","s","a","y"," ","q","u","a","n","t","u","m"," ","c",
      "o","m","p","u","t","i","n","g">>

\* The query extract_key_terms derives from QuantumQuestion.
\* "the document say about quantum"
ActualQuantumQuery ==
    <<"t","h","e"," ","d","o","c","u","m","e","n","t"," ","s","a","y"," ","a","b","o","u","t",
      " ","q","u","a","n","t","u","m">>

\* C9 as stated: when answer_with_wikipedia runs for the quantum question,
\* wiki_tool.run is called with exactly "document say quantum computing".
C9_QuantumQueryAsClaimed ==
    state.question = QuantumQuestion =>
        \A i \in EventsOf("wiki_tool.run") : events[i].arg = ClaimedQuantumQuery

\* C9, amended: when answer_with_wikipedia runs for the quantum question,
\* wiki_tool.run is called exactly once, with "the document say about quantum":
\* "the" and "about" are longer than two characters and are no stop words,
\* and only the first five surviving tokens are kept.
C9_QuantumQueryActual ==
    (state.question = QuantumQuestion /\ pc \in {"Return", "Final"} /\ Classified(TRUE)) =>
        /\ Cardinality(EventsOf("wiki_tool.run")) = 1
        /\ \A i \in EventsOf("wiki_tool.run") : events[i].arg = ActualQuantumQuery
        /\ wiki_query = ActualQuantumQuery

C9_Witness ==
    /\ state.question = QuantumQuestion
    /\ pc = "Final"
    /\ FallbackDone
    /\ \E i \in EventsOf("wiki_tool.run") : events[i].arg = ActualQuantumQuery

\* The tokens of a question that survive the filter of line 146.
SurvivingTokens(question) == key_words_of(findall_words(lower(question)))

\* C10 as stated: for every question, the empty one included,
\* extract_key_terms returns without failure and never returns the empty
\* string; when no token survives it returns the question unmodified.
C10_TermsNeverEmpty ==
    pc = "TermsDone" =>
        /\ wiki_query # <<>>
        /\ SurvivingTokens(state.question) = <<>> => wiki_query = state.question

\* C10, amended: for every question extract_key_terms returns without
\* failure; when no token survives it returns the question unmodified, and
\* it returns the empty string only for the empty question.
C10_TermsEmptyOnlyForEmptyQuestion ==
    /\ pc \in {"Terms", "TermsDone"}
    /\ raised = None
    /\ pc = "TermsDone" =>
          /\ SurvivingTokens(state.question) = <<>> => wiki_query = state.question
          /\ wiki_query = <<>> => state.question = <<>>

C10_Witness ==
    /\ pc = "TermsDone"
    /\ state.question = <<"W", "h", "o">>
    /\ wiki_query = <<"W", "h", "o">>

\* str.split(' ') of a string that is not empty; no term of the empty string.
RECURSIVE split_from(_, _, _, _)
split_from(s, i, cur, acc) ==
    IF i > Len(s) THEN Append(acc, cur)
    ELSE IF s[i] = " " THEN split_from(s, i + 1, <<>>, Append(acc, cur))
    ELSE split_from(s, i + 1, Append(cur, s[i]), acc)

TermsOf(s) == IF s = <<>> THEN <<>> ELSE split_from(s, 1, <<>>, <<>>)

\* The lower-cased tokens of a question that are no stop word and longer
\* than two characters, in the question's order.
SignificantTokens(question) ==
    SelectSeq(findall_words(lower(question)),
              LAMBDA w : w \notin stop_words /\ Len(w) > 2)

\* What C11 says of the string extract_key_terms returned for a question.
KeyTermsShape(question, returned) ==
    LET terms == TermsOf(returned)
        tokens == SignificantTokens(question)
    IN  /\ Len(terms) <= 5
        /\ \A k \in 1..Len(terms) : terms[k] \notin stop_words /\ Len(terms[k]) > 2
        /\ Len(terms) <= Len(tokens)
        /\ \A k \in 1..Len(terms) : terms[k] = tokens[k]
        /\ Len(terms) = IF Len(tokens) < 5 THEN Len(tokens) ELSE 5

\* C11 as stated: for every question, the string extract_key_terms returns
\* is at most 5 space-separated terms, none a stop word or of length <= 2,
\* and they are the first surviving lower-cased tokens of the question in
\* their order.
C11_KeyTermsForEveryQuestion ==
    pc = "TermsDone" => KeyTermsShape(state.question, wiki_query)

\* C11, amended: for every question of which at least one token survives the
\* filter, the returned string is at most 5 space-separated terms, none a
\* stop word or of length <= 2, and they are the first surviving lower-cased
\* tokens in their order; a question of which no token survives is returned
\* as it is, stop words and short words included.
C11_KeyTermsWhenTokensSurvive ==
    pc = "TermsDone" =>
        IF SignificantTokens(state.question) # <<>>
        THEN KeyTermsShape(state.question, wiki_query)
        ELSE wiki_query = state.question

C11_Witness ==
    /\ pc = "TermsDone"
    /\ Len(SignificantTokens(state.question)) = 6
    /\ Len(TermsOf(wiki_query)) = 5
    /\ \E k \in 1..Len(state.question) : state.question[k] = "C"
    /\ wiki_query[1] = "d"

\* The 15 negative-signal phrases of the Completeness Classifier.
NegativeSignalPhrases == {
    \* "no information"
    <<"n","o"," ","i","n","f","o","r","m","a","t","i","o","n">>,
    \* "not found"
    <<"n","o","t"," ","f","o","u","n","d">>,
    \* "cannot find"
    <<"c","a","n","n","o","t"," ","f","i","n","d">>,
    \* "not mentioned"
    <<"n","o","t"," ","m","e","n","t","i","o","n","e","d">>,
    \* "not provided"
    <<"n","o","t"," ","p","r","o","v","i","d","e","d">>,
    \* "not available"
    <<"n","o","t"," ","a","v","a","i","l","a","b","l","e">>,
    \* "insufficient information"
    <<"i","n","s","u","f","f","i","c","i","e","n","t"," ","i","n","f","o","r","m","a","t","i",
      "o","n">>,
    \* "don't have enough"
    <<"d","o","n","'","t"," ","h","a","v","e"," ","e","n","o","u","g","h">>,
    \* "context doesn't contain"
    <<"c","o","n","t","e","x","t"," ","d","o","e","s","n","'","t"," ","c","o","n","t","a","i",
      "n">>,
    \* "not in the documents"
    <<"n","o","t"," ","i","n"," ","t","h","e"," ","d","o","c","u","m","e","n","t","s">>,
    \* "need more context"
    <<"n","e","e","d"," ","m","o","r","e"," ","c","o","n","t","e","x","t">>,
    \* "please provide"
    <<"p","l","e","a","s","e"," ","p","r","o","v","i","d","e">>,
    \* "i need more"
    <<"i"," ","n","e","e","d"," ","m","o","r","e">>,
    \* "cannot answer"
    <<"c","a","n","n","o","t"," ","a","n","s","w","e","r">>,
    \* "unable to answer"
    <<"u","n","a","b","l","e"," ","t","o"," ","a","n","s","w","e","r">>
}

\* sub is a prefix of s, or occurs in what follows the first character of s.
RECURSIVE OccursIn(_, _)
OccursIn(sub, s) ==
    IF Len(sub) > Len(s) THEN FALSE
    ELSE IF SubSeq(s, 1, Len(sub)) = sub THEN TRUE
    ELSE OccursIn(sub, Tail(s))

\* C12: for every answer, is_incomplete_answer returns true if and only if
\* at least one of the 15 fixed negative-signal phrases occurs in the
\* lower-cased answer; it returns a verdict for every answer.
C12_IncompleteIffPhraseOccurs ==
    /\ Cardinality(NegativeSignalPhrases) = 15
    /\ pc \in {"Classifier", "ClassifierDone"}
    /\ raised = None
    /\ pc = "ClassifierDone" =>
          /\ Len(events) = 1
          /\ events[1].arg = doc_answer
          /\ events[1].ret = (\E p \in NegativeSignalPhrases : OccursIn(p, lower(doc_answer)))

C12_Witness ==
    /\ pc = "ClassifierDone"
    /\ doc_answer = <<"I">> \o upper(incomplete_indicators[2]) \o <<" ">>
    /\ events[1].ret = TRUE

\* C13: generate_answer run twice on an identical turn with deterministic
\* stubs returns identical turns (question, retrieved_docs, answer) and makes
\* the same external calls in the same order; nothing the first run left
\* behind changes the second.
C13_RerunIsIdentical ==
    (previous # None /\ pc = "Final") =>
        /\ result[1] = previous[1].result
        /\ ExternalCalls(events) = previous[1].calls

C13_Witness ==
    /\ pc = "Final"
    /\ run = 2
    /\ FallbackDone
    /\ Len(previous[1].calls) = 3
    /\ state.retrieved_docs # <<>>

\* How often an operation appears in the history of the running query.
Count(op) == Cardinality(EventsOf(op))

\* How often the generation service was called with a prompt of this kind.
GenerationCount(kind) ==
    Cardinality({i \in EventsOf("llm.invoke") : events[i].arg.kind = kind})

\* No stage of the running query has run twice.
NoStageRepeated ==
    /\ Count("answer_with_documents") <= 1
    /\ DocAnswerDone => Count("answer_with_documents") = 1
    /\ Count("is_incomplete_answer") <= 1
    /\ Count("answer_with_wikipedia") <= 1
    /\ Count("wiki_tool.run") <= 1
    /\ Count("llm.invoke") <= 2
    /\ GenerationCount("documents") <= 1
    /\ GenerationCount("combined") <= 1

\* How far a stage is from Final: every step of one call moves to a stage
\* that is strictly nearer.
StageRank ==
    [Retrieve |-> 5, Start |-> 4, DocAnswered |-> 3, Complete |-> 2, Fallback |-> 2,
     Return |-> 1, Final |-> 0]

\* C14: every query, its external calls returning or failing, reaches Final
\* in one pass with no stage repeated: answer_with_documents runs exactly
\* once, answer_with_wikipedia and the lookup at most once, the generation
\* service at most twice and at most once per stage.  Control is always at a
\* stage of the pass, each of which but Final has a step that waits for
\* nothing, and every step of a call moves strictly nearer to Final.
C14_SinglePassToFinal ==
    /\ [](NoStageRepeated /\ pc \in DOMAIN StageRank /\ raised = None)
    /\ [][run' = run => StageRank[pc'] < StageRank[pc]]_vars

C14_Witness ==
    /\ pc = "Final"
    /\ Count("answer_with_documents") = 1
    /\ Count("wiki_tool.run") = 1
    /\ Count("llm.invoke") = 2
    /\ ~llm.combined.ok

\* C15: the turn is replaced, never mutated: after retrieve_docs the turn
\* has the same question, the retriever's chunks in the retriever's order
\* and no answer; generate_answer returns a turn with the question and the
\* retrieved_docs of its input and the answer added, and leaves its input
\* turn as it was, on the Complete and on the Fallback path.
C15_TurnReplacedNotMutated ==
    /\ [](/\ pc # "Retrieve" => (state.retrieved_docs = retriever /\ state.answer = None)
          /\ pc = "Final" =>
                /\ result[1].question = state.question
                /\ result[1].retrieved_docs = state.retrieved_docs
                /\ result[1].answer = Some(final_answer))
    /\ [][/\ state'.question = state.question
          /\ pc # "Retrieve" => state' = state]_vars

C15_Witness ==
    /\ pc = "Final"
    /\ FallbackDone
    /\ Len(state.retrieved_docs) = 2
    /\ state.retrieved_docs[1] # state.retrieved_docs[2]
    /\ result[1].retrieved_docs = retriever
    /\ state.answer = None

\* C16: when the generation service answers the document prompt with the
\* sentence the prompt instructs, "The uploaded documents don't contain
\* sufficient information about <topic>.", is_incomplete_answer classifies
\* the answer as incomplete and generate_answer takes the Fallback branch.
C16_InstructedSentenceFallsBack ==
    (/\ state.retrieved_docs # <<>>
     /\ llm.documents = Returns(InstructedSentence)
     /\ pc \in {"Complete", "Fallback", "Return", "Final"}) =>
        /\ Classified(TRUE)
        /\ pc # "Complete"
        /\ pc \in {"Return", "Final"} => FallbackDone
====
